---- MODULE Spec2Model ----
(***************************************************************************)
(* Model of the dynamic-node-parameters controller                         *)
(* (packages/cli/src/controllers/dynamicNodeParameters.controller.ts).     *)
(*                                                                         *)
(* One HTTP request at a time travels through the route's middleware chain *)
(* (assertMethodName, parseQueryParams) and then through one of the three  *)
(* handlers.  Each handler awaits getBase and then returns the promise of  *)
(* one service call; both awaited collaborators are settled by the         *)
(* environment.  Every call the controller makes is appended to `calls`.   *)
(***************************************************************************)
EXTENDS Integers, Sequences, FiniteSets, TLC

\* Number of requests served one after the other in one behaviour.
MaxRequests == 2

(***************************************************************************)
(* JavaScript values.  Every value is a record with a tag field t.         *)
(***************************************************************************)
Undefined == [t |-> "undefined"]
Str(s) == [t |-> "string", s |-> s]
Num(n) == [t |-> "number", n |-> n]
Obj(members) == [t |-> "object", members |-> members]
Arr(members) == [t |-> "array", members |-> members]

\* Marker returned by jsonParse when JSON.parse throws.
ParseFailure == [t |-> "throw"]

\* Query-string texts used in the requests.
NodeTypeText == "{\"name\":\"n8n-nodes-base.httpRequest\",\"version\":1}"
CredentialsText == "{\"httpBasicAuth\":{\"id\":\"1\",\"name\":\"cred\"}}"
LoadOptionsText == "{\"routing\":{}}"
EmptyObjectText == "{}"
EmptyArrayText == "[]"
NumberText == "5"
MalformedText == "not-json"
EmptyText == ""

\* jsonParse(text): JSON.parse without fallback value, on the texts above.
\* Any other text, the empty one included, is not JSON.
jsonParse(text) ==
    CASE text = NodeTypeText ->
             Obj(<< <<"name", Str("n8n-nodes-base.httpRequest")>>,
                    <<"version", Num(1)>> >>)
      [] text = CredentialsText ->
             Obj(<< <<"httpBasicAuth",
                      Obj(<< <<"id", Str("1")>>, <<"name", Str("cred")>> >>)>> >>)
      [] text = LoadOptionsText -> Obj(<< <<"routing", Obj(<<>>)>> >>)
      [] text = EmptyObjectText -> Obj(<<>>)
      [] text = EmptyArrayText -> Arr(<<>>)
      [] text = NumberText -> Num(5)
      [] OTHER -> ParseFailure

\* httpStatusCode of an error that carries none.
NoStatusCode == 0

\* The error jsonParse raises: an error of the decoder, not a BadRequestError.
\* The controller neither catches nor wraps it, so it carries no status code
\* when it leaves the middleware or the handler.
ParseError ==
    [class |-> "ParseError", httpStatusCode |-> NoStatusCode,
     message |-> "Failed to parse JSON"]

\* new BadRequestError(message)
BadRequestError(message) ==
    [class |-> "BadRequestError", httpStatusCode |-> 400, message |-> message]

\* The failure of the execution-context builder.
ContextBuildError ==
    [class |-> "ContextBuildError", httpStatusCode |-> 500,
     message |-> "Internal server error"]

RequiredMessage(field) ==
    CASE field = "methodName" -> "Parameter methodName is required."
      [] field = "nodeTypeAndVersion" -> "Parameter nodeTypeAndVersion is required."
      [] field = "currentNodeParameters" -> "Parameter currentNodeParameters is required."

\* JavaScript's !v for a query value (a string or undefined).
FalsyAbsentOnly(v) == v = Undefined
Falsy(v) == v = Undefined \/ v = Str("")

Truthy(v) == ~Falsy(v)

\* Expected shapes of the two required structured fields.
HasKey(v, k) == \E i \in 1..Len(v.members) : v.members[i][1] = k
IsNodeTypeNameVersion(v) ==
    v.t = "object" /\ HasKey(v, "name") /\ HasKey(v, "version")
IsNodeParameters(v) == v.t = "object"

(***************************************************************************)
(* The requests.                                                           *)
(***************************************************************************)
Endpoints == {"options", "resource-locator-results", "resource-mapper-fields"}
MethodEndpoints == {"resource-locator-results", "resource-mapper-fields"}

MethodNameValues == {Undefined, Str(""), Str("getUrls")}
NodeTypeValues ==
    {Undefined, Str(EmptyText), Str(NodeTypeText), Str(NumberText), Str(MalformedText)}
ParameterValues ==
    {Undefined, Str(EmptyText), Str(EmptyObjectText), Str(EmptyArrayText),
     Str(MalformedText)}
CredentialValues ==
    {Undefined, Str(EmptyText), Str(CredentialsText), Str(MalformedText)}
LoadOptionsValues ==
    {Undefined, Str(EmptyText), Str(LoadOptionsText), Str(MalformedText)}
FilterValues == {Undefined, Str("abc")}
PaginationValues == {Undefined, Str("page2")}

Queries(ep) ==
    [path : {Str("parameters.url")},
     methodName : MethodNameValues,
     nodeTypeAndVersion : NodeTypeValues,
     currentNodeParameters : ParameterValues,
     credentials : CredentialValues,
     loadOptions : IF ep = "options" THEN LoadOptionsValues ELSE {Undefined},
     filter : IF ep = "resource-locator-results" THEN FilterValues ELSE {Undefined},
     paginationToken :
         IF ep = "resource-locator-results" THEN PaginationValues ELSE {Undefined}]

NoQuery ==
    [path |-> Undefined, methodName |-> Undefined, nodeTypeAndVersion |-> Undefined,
     currentNodeParameters |-> Undefined, credentials |-> Undefined,
     loadOptions |-> Undefined, filter |-> Undefined, paginationToken |-> Undefined]

NoParams ==
    [nodeTypeAndVersion |-> Undefined, currentNodeParameters |-> Undefined,
     credentials |-> Undefined]

UserId == Str("user-1")
AdditionalData == Obj(<< <<"userId", UserId>> >>)

(***************************************************************************)
(* The middleware chain of each route, ending in the handler.  The         *)
(* controller declares parseQueryParams as a middleware of every route and *)
(* assertMethodName as a middleware of two routes; the order in which the  *)
(* router mounts the two kinds is fixed once, when the controller is        *)
(* registered, and the controller does not determine it.                    *)
(***************************************************************************)
VARIABLE mounting

MountOrders == {"route-first", "controller-first"}

Pipeline(ep) ==
    IF ep \in MethodEndpoints
    THEN IF mounting = "route-first"
         THEN <<"assertMethodName", "parseQueryParams", "handler">>
         ELSE <<"parseQueryParams", "assertMethodName", "handler">>
    ELSE <<"parseQueryParams", "handler">>

\* next(): the step after `step` in the chain of route ep.
NextStep(ep, step) ==
    LET p == Pipeline(ep)
        i == CHOOSE j \in 1..Len(p) : p[j] = step
    IN p[i + 1]

(***************************************************************************)
(* assertMethodName                                                        *)
(***************************************************************************)
\* TRUE when the middleware throws.
AssertMethodNameThrows(q) == Falsy(q.methodName)

(***************************************************************************)
(* parseQueryParams                                                        *)
(***************************************************************************)
RequiredParamMissingParametersFirst(q) ==
    IF Falsy(q.currentNodeParameters) THEN "currentNodeParameters"
    ELSE IF Falsy(q.nodeTypeAndVersion) THEN "nodeTypeAndVersion"
    ELSE "none"
\* The required field whose check throws, "none" when both checks pass.
RequiredParamMissing(q) ==
    IF Falsy(q.nodeTypeAndVersion) THEN "nodeTypeAndVersion"
    ELSE IF Falsy(q.currentNodeParameters) THEN "currentNodeParameters"
    ELSE "none"

JsonParseCall(field, v) == [fn |-> "jsonParse", field |-> field, args |-> <<v>>]

\* The object literal assigned to req.params, its properties evaluated in
\* source order; the first jsonParse that throws ends the evaluation.
DecodeParams(q) ==
    LET ntv == jsonParse(q.nodeTypeAndVersion.s)
        cnp == jsonParse(q.currentNodeParameters.s)
        hasCred == Truthy(q.credentials)
        cred == IF hasCred THEN jsonParse(q.credentials.s) ELSE Undefined
        c1 == <<JsonParseCall("nodeTypeAndVersion", q.nodeTypeAndVersion)>>
        c2 == Append(c1, JsonParseCall("currentNodeParameters", q.currentNodeParameters))
        c3 == IF hasCred THEN Append(c2, JsonParseCall("credentials", q.credentials))
              ELSE c2
    IN  IF ntv = ParseFailure
        THEN [threw |-> TRUE, error |-> ParseError, parsed |-> c1, params |-> NoParams]
        ELSE IF cnp = ParseFailure
        THEN [threw |-> TRUE, error |-> ParseError, parsed |-> c2, params |-> NoParams]
        ELSE IF cred = ParseFailure
        THEN [threw |-> TRUE, error |-> ParseError, parsed |-> c3, params |-> NoParams]
        ELSE [threw |-> FALSE, error |-> ParseError, parsed |-> c3,
              params |-> [nodeTypeAndVersion |-> ntv,
                          currentNodeParameters |-> cnp,
                          credentials |-> cred]]

Thrown(error) ==
    [threw |-> TRUE, error |-> error, parsed |-> <<>>, params |-> NoParams]

\* A variant that decodes nodeTypeAndVersion before checking currentNodeParameters.
parseQueryParamsDecodeFirst(q) ==
    IF Falsy(q.nodeTypeAndVersion)
    THEN Thrown(BadRequestError(RequiredMessage("nodeTypeAndVersion")))
    ELSE IF jsonParse(q.nodeTypeAndVersion.s) = ParseFailure
    THEN [threw |-> TRUE, error |-> ParseError,
          parsed |-> <<JsonParseCall("nodeTypeAndVersion", q.nodeTypeAndVersion)>>,
          params |-> NoParams]
    ELSE IF Falsy(q.currentNodeParameters)
    THEN [threw |-> TRUE,
          error |-> BadRequestError(RequiredMessage("currentNodeParameters")),
          parsed |-> <<JsonParseCall("nodeTypeAndVersion", q.nodeTypeAndVersion)>>,
          params |-> NoParams]
    ELSE DecodeParams(q)
\* The whole middleware: what it throws, the jsonParse calls it made and the
\* req.params it stored.
parseQueryParams(q) ==
    LET missing == RequiredParamMissing(q)
    IN  IF missing # "none"
        THEN Thrown(BadRequestError(RequiredMessage(missing)))
        ELSE DecodeParams(q)

(***************************************************************************)
(* getOptions: the resolution mode                                         *)
(***************************************************************************)
OptionsModeLoadOptionsFirst(q) ==
    IF Truthy(q.loadOptions) THEN "loadOptions"
    ELSE IF Truthy(q.methodName) THEN "methodName"
    ELSE "none"
OptionsModeAlwaysMethod(q) ==
    IF Truthy(q.loadOptions) /\ Falsy(q.methodName) THEN "loadOptions"
    ELSE "methodName"
OptionsMode(q) ==
    IF Truthy(q.methodName) THEN "methodName"
    ELSE IF Truthy(q.loadOptions) THEN "loadOptions"
    ELSE "none"

(***************************************************************************)
(* Outcomes of the awaited collaborators and the response sent for them.   *)
(***************************************************************************)
Resolved(v) == [ok |-> TRUE, value |-> v, error |-> ParseError]
Rejected(e) == [ok |-> FALSE, value |-> Undefined, error |-> e]
NoOutcome == [ok |-> FALSE, value |-> Undefined,
              error |-> [class |-> "none", httpStatusCode |-> 0, message |-> ""]]

EmptyList == Arr(<<>>)
OptionList == Arr(<< Obj(<< <<"name", Str("A")>>, <<"value", Str("a")>> >>) >>)
LocatorResult == Obj(<< <<"results", Arr(<<>>)>>, <<"paginationToken", Str("page3")>> >>)
MapperFields == Obj(<< <<"fields", Arr(<<>>)>> >>)

ServiceFns ==
    {"getOptionsViaMethodName", "getOptionsViaLoadOptions",
     "getResourceLocatorResults", "getResourceMappingFields"}

ServiceValues(fn) ==
    CASE fn = "getResourceLocatorResults" -> {Undefined, LocatorResult}
      [] fn = "getResourceMappingFields" -> {Undefined, MapperFields}
      [] OTHER -> {EmptyList, OptionList}

ServiceFaults ==
    {[class |-> "InternalServerError", httpStatusCode |-> 500,
      message |-> "upstream unreachable"],
     [class |-> "BadRequestError", httpStatusCode |-> 400,
      message |-> "node rejected the request"]}

\* A handler that turns a rejected service call into an empty list.
HandlerReturnRecovering(o) == IF o.ok THEN o ELSE Resolved(EmptyList)
\* `return this.service.f(...)`: the handler's promise settles as the call's.
HandlerReturn(o) == o

NoResponse == [status |-> 0, kind |-> "none", body |-> Undefined, message |-> ""]
\* The statuses the framework may give an error that carries no status code.
UnclassifiedStatuses == {400, 500}

\* The responses the framework may send for a handler or middleware outcome:
\* the value with status 200, or the error's message with the error's status.
Responses(o) ==
    IF o.ok
    THEN {[status |-> 200, kind |-> "data", body |-> o.value, message |-> ""]}
    ELSE {[status |-> st, kind |-> "error", body |-> Undefined,
           message |-> o.error.message] :
            st \in IF o.error.httpStatusCode = NoStatusCode
                   THEN UnclassifiedStatuses
                   ELSE {o.error.httpStatusCode}}

(***************************************************************************)
(* State                                                                   *)
(***************************************************************************)
VARIABLES pc, endpoint, query, params, additionalData, calls, settled,
          outcome, response, served

vars == <<pc, endpoint, query, params, additionalData, calls, settled,
          outcome, response, served, mounting>>

\* The chain ends with outcome o and the framework sends the response for it.
Reply(o) == outcome' = o /\ response' \in Responses(o)
NoReply == UNCHANGED <<outcome, response>>

Init ==
    /\ pc = "idle"
    /\ endpoint = "options"
    /\ query = NoQuery
    /\ params = NoParams
    /\ additionalData = Undefined
    /\ calls = <<>>
    /\ settled = NoOutcome
    /\ outcome = NoOutcome
    /\ response = NoResponse
    /\ served = 0
    /\ mounting \in MountOrders

\* The router accepts a request and starts the chain of its route.
Receive ==
    /\ pc = "idle"
    /\ served < MaxRequests
    /\ \E ep \in Endpoints : \E q \in Queries(ep) :
          /\ endpoint' = ep
          /\ query' = q
          /\ pc' = Head(Pipeline(ep))
    /\ params' = NoParams
    /\ additionalData' = Undefined
    /\ calls' = <<>>
    /\ settled' = NoOutcome
    /\ outcome' = NoOutcome
    /\ response' = NoResponse
    /\ served' = served + 1
    /\ UNCHANGED mounting

AssertMethodName ==
    /\ pc = "assertMethodName"
    /\ IF AssertMethodNameThrows(query)
       THEN /\ Reply(Rejected(BadRequestError(RequiredMessage("methodName"))))
            /\ pc' = "done"
       ELSE /\ NoReply
            /\ pc' = NextStep(endpoint, "assertMethodName")
    /\ UNCHANGED <<endpoint, query, params, additionalData, calls, settled, served, mounting>>

ParseQueryParams ==
    /\ pc = "parseQueryParams"
    /\ LET r == parseQueryParams(query)
       IN  /\ calls' = calls \o r.parsed
           /\ IF r.threw
              THEN /\ Reply(Rejected(r.error))
                   /\ params' = params
                   /\ pc' = "done"
              ELSE /\ NoReply
                   /\ params' = r.params
                   /\ pc' = NextStep(endpoint, "parseQueryParams")
    /\ UNCHANGED <<endpoint, query, additionalData, settled, served, mounting>>

GetBaseCall(p) == [fn |-> "getBase", field |-> "", args |-> <<UserId, p.currentNodeParameters>>]

\* Up to `await getBase(...)`.
CallGetBase ==
    /\ calls' = Append(calls, GetBaseCall(params))
    /\ pc' = "getBase"
    /\ UNCHANGED <<endpoint, query, params, additionalData, settled, outcome, response, served, mounting>>

GetOptionsDecodeFirst ==
    /\ pc = "handler"
    /\ endpoint = "options"
    /\ IF OptionsMode(query) = "loadOptions"
       THEN IF jsonParse(query.loadOptions.s) = ParseFailure
            THEN /\ calls' = Append(calls, JsonParseCall("loadOptions", query.loadOptions))
                 /\ Reply(Rejected(ParseError))
                 /\ pc' = "done"
            ELSE /\ calls' = calls \o <<JsonParseCall("loadOptions", query.loadOptions),
                                        GetBaseCall(params)>>
                 /\ NoReply
                 /\ pc' = "getBase"
       ELSE /\ calls' = Append(calls, GetBaseCall(params))
            /\ NoReply
            /\ pc' = "getBase"
    /\ UNCHANGED <<endpoint, query, params, additionalData, settled, served, mounting>>
GetOptions ==
    /\ pc = "handler"
    /\ endpoint = "options"
    /\ CallGetBase

GetResourceLocatorResults ==
    /\ pc = "handler"
    /\ endpoint = "resource-locator-results"
    /\ CallGetBase

GetResourceMappingFieldsNoContext ==
    /\ pc = "handler"
    /\ endpoint = "resource-mapper-fields"
    /\ pc' = "dispatch"
    /\ UNCHANGED <<endpoint, query, params, additionalData, calls, settled,
                   outcome, response, served, mounting>>
GetResourceMappingFields ==
    /\ pc = "handler"
    /\ endpoint = "resource-mapper-fields"
    /\ CallGetBase

\* getBase's promise fulfils: the handler resumes with the context.
GetBaseResolves ==
    /\ pc = "getBase"
    /\ additionalData' = AdditionalData
    /\ pc' = "dispatch"
    /\ UNCHANGED <<endpoint, query, params, calls, settled, outcome, response, served, mounting>>

\* getBase's promise rejects: the await throws out of the handler.
GetBaseRejects ==
    /\ pc = "getBase"
    /\ Reply(Rejected(ContextBuildError))
    /\ pc' = "done"
    /\ UNCHANGED <<endpoint, query, params, additionalData, calls, settled, served, mounting>>

ServiceCall(fn, args) == [fn |-> fn, field |-> "", args |-> args]

\* getOptions after the await.
GetOptionsDispatch ==
    /\ pc = "dispatch"
    /\ endpoint = "options"
    /\ LET mode == OptionsMode(query)
       IN  CASE mode = "methodName" ->
                  /\ calls' = Append(calls,
                        ServiceCall("getOptionsViaMethodName",
                            <<query.methodName, query.path, additionalData,
                              params.nodeTypeAndVersion, params.currentNodeParameters,
                              params.credentials>>))
                  /\ pc' = "service"
                  /\ NoReply
             [] mode = "loadOptions" ->
                  LET d == jsonParse(query.loadOptions.s)
                      c == Append(calls, JsonParseCall("loadOptions", query.loadOptions))
                  IN  IF d = ParseFailure
                      THEN /\ calls' = c
                           /\ Reply(Rejected(ParseError))
                           /\ pc' = "done"
                      ELSE /\ calls' = Append(c,
                                 ServiceCall("getOptionsViaLoadOptions",
                                     <<d, additionalData, params.nodeTypeAndVersion,
                                       params.currentNodeParameters,
                                       params.credentials>>))
                           /\ pc' = "service"
                           /\ NoReply
             [] OTHER ->
                  /\ calls' = calls
                  /\ Reply(Resolved(EmptyList))
                  /\ pc' = "done"
    /\ UNCHANGED <<endpoint, query, params, additionalData, settled, served, mounting>>

\* getResourceLocatorResults after the await.
GetResourceLocatorResultsDispatch ==
    /\ pc = "dispatch"
    /\ endpoint = "resource-locator-results"
    /\ calls' = Append(calls,
          ServiceCall("getResourceLocatorResults",
              <<query.methodName, query.path, additionalData,
                params.nodeTypeAndVersion, params.currentNodeParameters,
                params.credentials, query.filter, query.paginationToken>>))
    /\ pc' = "service"
    /\ UNCHANGED <<endpoint, query, params, additionalData, settled, outcome, response, served, mounting>>

\* getResourceMappingFields after the await.
GetResourceMappingFieldsDispatch ==
    /\ pc = "dispatch"
    /\ endpoint = "resource-mapper-fields"
    /\ calls' = Append(calls,
          ServiceCall("getResourceMappingFields",
              <<query.methodName, query.path, additionalData,
                params.nodeTypeAndVersion, params.currentNodeParameters,
                params.credentials>>))
    /\ pc' = "service"
    /\ UNCHANGED <<endpoint, query, params, additionalData, settled, outcome, response, served, mounting>>

LastCall == calls[Len(calls)]

\* The service call's promise fulfils with a value.
ServiceResolves ==
    /\ pc = "service"
    /\ \E v \in ServiceValues(LastCall.fn) :
          /\ settled' = Resolved(v)
          /\ Reply(HandlerReturn(Resolved(v)))
    /\ pc' = "done"
    /\ UNCHANGED <<endpoint, query, params, additionalData, calls, served, mounting>>

\* The service call's promise rejects.
ServiceRejects ==
    /\ pc = "service"
    /\ \E e \in ServiceFaults :
          /\ settled' = Rejected(e)
          /\ Reply(HandlerReturn(Rejected(e)))
    /\ pc' = "done"
    /\ UNCHANGED <<endpoint, query, params, additionalData, calls, served, mounting>>

\* The response is sent and the request's objects are dropped.
Finish ==
    /\ pc = "done"
    /\ pc' = "idle"
    /\ endpoint' = "options"
    /\ query' = NoQuery
    /\ params' = NoParams
    /\ additionalData' = Undefined
    /\ calls' = <<>>
    /\ settled' = NoOutcome
    /\ outcome' = NoOutcome
    /\ response' = NoResponse
    /\ UNCHANGED <<served, mounting>>

Next ==
    \/ Receive
    \/ AssertMethodName
    \/ ParseQueryParams
    \/ GetOptions
    \/ GetResourceLocatorResults
    \/ GetResourceMappingFields
    \/ GetBaseResolves
    \/ GetBaseRejects
    \/ GetOptionsDispatch
    \/ GetResourceLocatorResultsDispatch
    \/ GetResourceMappingFieldsDispatch
    \/ ServiceResolves
    \/ ServiceRejects
    \/ Finish

Spec == Init /\ [][Next]_vars

TypeOK ==
    /\ pc \in {"idle", "assertMethodName", "parseQueryParams", "handler",
               "getBase", "dispatch", "service", "done"}
    /\ endpoint \in Endpoints
    /\ served \in 0..MaxRequests
    /\ mounting \in MountOrders
    /\ response.status \in {0, 200, 400, 500}

(***************************************************************************)
(* Vocabulary of the properties.                                           *)
(***************************************************************************)
InRequest == pc # "idle"
Done == pc = "done"

Absent(v) == v = [t |-> "undefined"]
Empty(v) == v = [t |-> "string", s |-> ""]
Lacks(v) == Absent(v) \/ Empty(v)
Malformed(v) == v = [t |-> "string", s |-> "not-json"]

CallsOf(fns) == {i \in 1..Len(calls) : calls[i].fn \in fns}
GetBaseCalls == CallsOf({"getBase"})
ServiceCalls == CallsOf(ServiceFns)
ParseCalls(field) ==
    {i \in 1..Len(calls) : calls[i].fn = "jsonParse" /\ calls[i].field = field}
AllParseCalls == CallsOf({"jsonParse"})

MethodNameRequirementMet == endpoint = "options" \/ ~Lacks(query.methodName)

FailedWith(class, message) ==
    /\ ~outcome.ok
    /\ outcome.error.class = class
    /\ outcome.error.message = message
    /\ response.kind = "error"
    /\ response.message = message

MissingFieldMessages ==
    {"Parameter methodName is required.",
     "Parameter nodeTypeAndVersion is required.",
     "Parameter currentNodeParameters is required."}

\* C1: a request that passes the methodName requirement but lacks
\* nodeTypeAndVersion or currentNodeParameters ends in a BadRequestError naming
\* the missing field (nodeTypeAndVersion when both are missing), and neither
\* getBase nor a resolution method is called at any point of the request.
C1_MissingRequiredField ==
    (InRequest /\ MethodNameRequirementMet
       /\ (Lacks(query.nodeTypeAndVersion) \/ Lacks(query.currentNodeParameters)))
    => /\ GetBaseCalls = {}
       /\ ServiceCalls = {}
       /\ pc \in {"assertMethodName", "parseQueryParams", "done"}
       /\ Done =>
            /\ response.status = 400
            /\ IF Lacks(query.nodeTypeAndVersion)
               THEN FailedWith("BadRequestError",
                               "Parameter nodeTypeAndVersion is required.")
               ELSE FailedWith("BadRequestError",
                               "Parameter currentNodeParameters is required.")

C1_Witness ==
    /\ Done
    /\ endpoint = "resource-mapper-fields"
    /\ query.methodName = Str("getUrls")
    /\ Absent(query.nodeTypeAndVersion)
    /\ Absent(query.currentNodeParameters)
    /\ response.message = "Parameter nodeTypeAndVersion is required."

\* C3: on options with both methodName and loadOptions supplied, the only
\* resolution method ever called is getOptionsViaMethodName, loadOptions is
\* never decoded, and once the context is built the request ends as that call
\* ends, so a malformed loadOptions cannot fail it.
C3_MethodNamePrecedence ==
    (InRequest /\ endpoint = "options"
       /\ ~Lacks(query.methodName) /\ ~Lacks(query.loadOptions))
    => /\ ParseCalls("loadOptions") = {}
       /\ \A i \in ServiceCalls : calls[i].fn = "getOptionsViaMethodName"
       /\ pc = "service" => Cardinality(ServiceCalls) = 1
       /\ (Done /\ additionalData # Undefined) =>
            /\ Cardinality(ServiceCalls) = 1
            /\ outcome = settled
            /\ settled # NoOutcome

C3_Witness ==
    /\ Done
    /\ endpoint = "options"
    /\ query.methodName = Str("getUrls")
    /\ Malformed(query.loadOptions)
    /\ response.status = 200
    /\ response.body = OptionList
    /\ calls[Len(calls)].fn = "getOptionsViaMethodName"

ValidRequired ==
    /\ query.nodeTypeAndVersion = Str(NodeTypeText)
    /\ query.currentNodeParameters = Str(EmptyObjectText)

\* C4 as stated: every options request with valid nodeTypeAndVersion and
\* currentNodeParameters and neither methodName nor loadOptions ends in
\* success with an empty list and calls no resolution method.
C4_Original ==
    (Done /\ endpoint = "options" /\ ValidRequired
       /\ Absent(query.methodName) /\ Absent(query.loadOptions))
    => /\ outcome = Resolved(EmptyList)
       /\ response.status = 200
       /\ ServiceCalls = {}

\* C4 amended: such a request calls no resolution method; when its credentials
\* are absent, empty or valid JSON it reaches the context builder, and it ends
\* in success with an empty list when the context is built and in the context
\* builder's failure otherwise.
C4_EmptyResultWithoutMode ==
    (InRequest /\ endpoint = "options" /\ ValidRequired
       /\ Lacks(query.methodName) /\ Lacks(query.loadOptions))
    => /\ ServiceCalls = {}
       /\ pc # "service"
       /\ (Done /\ ~Malformed(query.credentials)) =>
            /\ Cardinality(GetBaseCalls) = 1
            /\ IF additionalData # Undefined
               THEN /\ outcome = Resolved(EmptyList)
                    /\ response.status = 200
                    /\ response.body = Arr(<<>>)
               ELSE outcome = Rejected(ContextBuildError)
       /\ (Done /\ Malformed(query.credentials)) =>
            /\ GetBaseCalls = {}
            /\ outcome = Rejected(ParseError)

C4_Witness ==
    /\ Done
    /\ endpoint = "options"
    /\ ValidRequired
    /\ Absent(query.methodName)
    /\ Absent(query.loadOptions)
    /\ response.status = 200
    /\ response.body = Arr(<<>>)
    /\ ServiceCalls = {}

\* C5: once a resolution method has been called, the request ends exactly as
\* that one call ends: its value is the response body, its failure is the
\* response's status and message, and no second call is made.
C5_ResolutionOutcomeUnchanged ==
    (InRequest /\ ServiceCalls # {})
    => /\ Cardinality(ServiceCalls) = 1
       /\ pc \in {"service", "done"}
       /\ Done =>
            /\ settled # NoOutcome
            /\ outcome = settled
            /\ settled.ok =>
                 /\ response.status = 200
                 /\ response.body = settled.value
            /\ ~settled.ok =>
                 /\ response.status = settled.error.httpStatusCode
                 /\ response.message = settled.error.message

C5_Witness ==
    /\ Done
    /\ endpoint = "resource-locator-results"
    /\ ServiceCalls # {}
    /\ response.status = 500
    /\ response.message = "upstream unreachable"

\* C6: getBase is called at most once, only after both middlewares passed and
\* the required fields were decoded, and exactly once in a request that passed
\* them; a resolution method is called at most once, only after getBase was
\* called and returned the context it is passed; a request whose context
\* build failed calls no resolution method.
C6_ContextBuiltOnceBeforeResolution ==
    InRequest
    => /\ Cardinality(GetBaseCalls) <= 1
       /\ Cardinality(ServiceCalls) <= 1
       /\ \A g \in GetBaseCalls :
            /\ MethodNameRequirementMet
            /\ params # NoParams
            /\ \E i \in ParseCalls("nodeTypeAndVersion") : i < g
            /\ \E i \in ParseCalls("currentNodeParameters") : i < g
            /\ \A i \in ParseCalls("credentials") : i < g
       /\ \A r \in ServiceCalls :
            /\ \E g \in GetBaseCalls : g < r
            /\ additionalData = AdditionalData
            /\ \E k \in 1..Len(calls[r].args) : calls[r].args[k] = AdditionalData
       /\ pc \in {"getBase", "dispatch", "service"} => Cardinality(GetBaseCalls) = 1
       /\ (Done /\ params # NoParams /\ MethodNameRequirementMet)
            => Cardinality(GetBaseCalls) = 1
       /\ (Done /\ (params = NoParams \/ ~MethodNameRequirementMet))
            => GetBaseCalls = {}
       /\ (Done /\ ~outcome.ok /\ outcome.error.class = "ContextBuildError")
            => ServiceCalls = {}

C6_Witness ==
    /\ Done
    /\ endpoint = "resource-mapper-fields"
    /\ Cardinality(GetBaseCalls) = 1
    /\ Cardinality(ServiceCalls) = 1
    /\ \A g \in GetBaseCalls : \A r \in ServiceCalls : g < r

\* C7: whenever a resolution method has been called, the nodeTypeAndVersion
\* and currentNodeParameters it was passed have the declared shapes (an object
\* with name and version, and an object).
C7_DispatchedShapes ==
    (InRequest /\ ServiceCalls # {})
    => /\ IsNodeTypeNameVersion(params.nodeTypeAndVersion)
       /\ IsNodeParameters(params.currentNodeParameters)

\* C8 as stated: in load-options mode the loadOptions descriptor is decoded
\* before the context builder is called.
C8_Original ==
    (InRequest /\ endpoint = "options"
       /\ Lacks(query.methodName) /\ ~Lacks(query.loadOptions))
    => \A g \in GetBaseCalls : \E i \in ParseCalls("loadOptions") : i < g

\* C8 amended: in load-options mode the loadOptions descriptor is decoded only
\* after the context builder was called and returned, immediately before the
\* resolution call; a malformed loadOptions fails the request with a parse
\* error after exactly one getBase call, and when the context build fails
\* that failure is reported and loadOptions is never decoded.
C8_LoadOptionsDecodedAfterContext ==
    (InRequest /\ endpoint = "options"
       /\ Lacks(query.methodName) /\ ~Lacks(query.loadOptions))
    => /\ \A i \in ParseCalls("loadOptions") :
            /\ \E g \in GetBaseCalls : g < i
            /\ additionalData = AdditionalData
       /\ \A r \in ServiceCalls :
            /\ calls[r].fn = "getOptionsViaLoadOptions"
            /\ r - 1 \in ParseCalls("loadOptions")
       /\ (Done /\ params # NoParams /\ Malformed(query.loadOptions)) =>
            /\ Cardinality(GetBaseCalls) = 1
            /\ ServiceCalls = {}
            /\ IF additionalData = Undefined
               THEN /\ outcome = Rejected(ContextBuildError)
                    /\ ParseCalls("loadOptions") = {}
               ELSE /\ outcome = Rejected(ParseError)
                    /\ Cardinality(ParseCalls("loadOptions")) = 1

C8_Witness ==
    /\ Done
    /\ endpoint = "options"
    /\ Absent(query.methodName)
    /\ Malformed(query.loadOptions)
    /\ outcome = Rejected(ParseError)
    /\ Cardinality(GetBaseCalls) = 1
    /\ calls[Len(calls)].fn = "jsonParse"

\* C9 as stated: a field supplied as the empty string does not take the path
\* of an omitted field: methodName="" is not rejected as missing on the
\* locator and mapper endpoints, and credentials="" is not turned into the
\* not-provided value.
C9_Original ==
    /\ (Done /\ endpoint \in MethodEndpoints /\ Empty(query.methodName))
         => ~FailedWith("BadRequestError", "Parameter methodName is required.")
    /\ (InRequest /\ Empty(query.credentials) /\ GetBaseCalls # {})
         => params.credentials # Undefined

RequiredFieldsDecodable ==
    /\ ~Lacks(query.nodeTypeAndVersion) /\ ~Malformed(query.nodeTypeAndVersion)
    /\ ~Lacks(query.currentNodeParameters) /\ ~Malformed(query.currentNodeParameters)
    /\ ~Malformed(query.credentials)

\* C9 amended: a field supplied as the empty string takes the path of an
\* omitted field: on the locator and mapper endpoints methodName="" never
\* reaches the handler and is rejected as missing (with the methodName error
\* whenever parseQueryParams has nothing to reject in the same request, under
\* either mounting order), and on options it selects no method-name resolution,
\* nodeTypeAndVersion="" and currentNodeParameters="" are rejected as missing,
\* credentials="" is never decoded and becomes the not-provided value, and
\* loadOptions="" is never decoded and selects no resolution; an empty
\* structure ("{}") is decoded and stays distinct from not-provided.
C9_EmptyStringIsAbsent ==
    InRequest
    => /\ (endpoint \in MethodEndpoints /\ Empty(query.methodName)) =>
            /\ GetBaseCalls = {}
            /\ ServiceCalls = {}
            /\ pc \in {"assertMethodName", "parseQueryParams", "done"}
            /\ Done =>
                 /\ ~outcome.ok
                 /\ \/ FailedWith("BadRequestError", "Parameter methodName is required.")
                    \/ params = NoParams
                 /\ RequiredFieldsDecodable =>
                      FailedWith("BadRequestError", "Parameter methodName is required.")
       /\ (endpoint = "options" /\ Empty(query.methodName)) =>
            \A r \in ServiceCalls : calls[r].fn # "getOptionsViaMethodName"
       /\ (MethodNameRequirementMet /\ Empty(query.nodeTypeAndVersion)) =>
            /\ calls = <<>>
            /\ Done => FailedWith("BadRequestError",
                                  "Parameter nodeTypeAndVersion is required.")
       /\ (MethodNameRequirementMet /\ ~Lacks(query.nodeTypeAndVersion)
             /\ Empty(query.currentNodeParameters)) =>
            /\ calls = <<>>
            /\ Done => FailedWith("BadRequestError",
                                  "Parameter currentNodeParameters is required.")
       /\ Empty(query.credentials) =>
            /\ ParseCalls("credentials") = {}
            /\ params.credentials = Undefined
       /\ Empty(query.loadOptions) =>
            /\ ParseCalls("loadOptions") = {}
            /\ \A r \in ServiceCalls : calls[r].fn # "getOptionsViaLoadOptions"
            /\ (Done /\ Lacks(query.methodName) /\ additionalData # Undefined)
                 => outcome = Resolved(EmptyList)
       /\ (query.currentNodeParameters = Str("{}") /\ GetBaseCalls # {}) =>
            params.currentNodeParameters = Obj(<<>>)

C9_Witness ==
    /\ Done
    /\ endpoint = "resource-locator-results"
    /\ Empty(query.methodName)
    /\ query.nodeTypeAndVersion = Str(NodeTypeText)
    /\ query.currentNodeParameters = Str(EmptyObjectText)
    /\ response.message = "Parameter methodName is required."

\* C10: a request whose nodeTypeAndVersion, currentNodeParameters or
\* credentials is present but not valid JSON ends in a 400-class error that is
\* not a missing-field error, without a getBase or resolution call; and both
\* missing-field checks come before any decoding, so a present
\* nodeTypeAndVersion (malformed or not) with currentNodeParameters missing
\* ends in the currentNodeParameters error with nothing decoded.
C10_MalformedJson ==
    (InRequest /\ MethodNameRequirementMet)
    => /\ (~Lacks(query.nodeTypeAndVersion) /\ ~Lacks(query.currentNodeParameters)
             /\ (\/ Malformed(query.nodeTypeAndVersion)
                 \/ Malformed(query.currentNodeParameters)
                 \/ Malformed(query.credentials))) =>
            /\ GetBaseCalls = {}
            /\ ServiceCalls = {}
            /\ Done =>
                 /\ ~outcome.ok
                 /\ response.status = 400
                 /\ outcome.error.class # "BadRequestError"
                 /\ response.message \notin MissingFieldMessages
                 /\ AllParseCalls # {}
       /\ (~Lacks(query.nodeTypeAndVersion) /\ Lacks(query.currentNodeParameters)) =>
            /\ AllParseCalls = {}
            /\ Done => FailedWith("BadRequestError",
                                  "Parameter currentNodeParameters is required.")
====
